---- MODULE Spec2Model ----
(***************************************************************************)
(* A model of temba/api/v2/serializers.py: the write serializers of the    *)
(* v2 API.  Every request is one atomic action: the body is validated      *)
(* (WriteSerializer.run_validation, the declared fields with their         *)
(* validate_<field> methods, then the cross-field validate) and, when no   *)
(* error was raised, saved.  The variable "last" records the request that  *)
(* was handled last together with its outcome (errors, the validators that *)
(* ran, the collaborator calls made by save, in order).                    *)
(***************************************************************************)
EXTENDS Integers, Sequences, FiniteSets, TLC

VARIABLES
    event,      \* the CampaignEvent a CampaignEventWriteSerializer is bound to
    flows,      \* the Flow table: user flows, then hidden single-message flows
    org,        \* the organization of the requests: is_anon and is_suspended
    contacts,   \* the Contact table, a contact's id being its row number
    urn_owner,  \* the ContactURN table: the contact each URN belongs to, 0 for none
    broadcasts, \* the Broadcast table, a broadcast's id being its row number
    tasks,      \* the queue of send_broadcast_task: the broadcast ids handed to delay
    campaigns,  \* the Campaign table of the organization
    contactgroups,  \* the ContactGroup table of the organization (user groups)
    labels,     \* the Label table of the organization
    starts,     \* the FlowStart table of the organization
    subscribers,  \* the ResthookSubscriber table of the organization
    last        \* the request handled last and its outcome

vars ==
    <<event, flows, org, contacts, urn_owner, broadcasts, tasks, campaigns, contactgroups,
      labels, starts, subscribers, last>>

\* the state of the campaign event endpoint
eventVars == <<event, flows>>

\* the state of the contact endpoint
contactVars == <<org, contacts, urn_owner>>

\* the state of the broadcast endpoint, which also makes contacts
broadcastVars == <<broadcasts, tasks>>

\* the state of the campaign, contact group and label endpoints
nameVars == <<campaigns, contactgroups, labels>>

\* the state of the flow start and resthook subscriber endpoints
hookVars == <<starts, subscribers>>

----------------------------------------------------------------------------
(* Python values *)

\* Python's None, for the scalar (string valued) attributes
None == "None"

\* a key the request body does not have
Absent == "Absent"

\* Python truthiness of a string-or-None value: None and '' are false
Truthy(v) == v # None /\ v # ""

\* a list valued key the request body does not have
AbsentList == <<Absent>>

\* a key holding a list of contacts the request body does not have
AbsentContacts == <<0>>

\* a dict valued key the request body does not have
AbsentDict == {<<Absent, Absent>>}

\* a flow reference is a row number of the flow table; 0 is no flow (None)
NoFlow == 0

\* a validator or validate method returning its value
Return(v) == [raised |-> FALSE, detail |-> "", value |-> v]

\* a field that is not required and not in the body: Serializer.run_validation skips
\* it, calls no validate_<field> method and leaves its key out of the validated data
Skip(v) == [raised |-> FALSE, detail |-> "skip", value |-> v]

\* a validator or validate method raising serializers.ValidationError(msg)
Raise(msg) == [raised |-> TRUE, detail |-> msg, value |-> <<>>]

\* the outcome of a request that has not been made
NoRequest ==
    [ser |-> "none", shape |-> "none", data |-> <<>>, instance |-> <<>>, errors |-> {},
     ran |-> {}, validated |-> <<>>, calls |-> <<>>, saved |-> FALSE]

----------------------------------------------------------------------------
(* Request bodies *)

\* the JSON shapes a request body can have; "absent" is serializers.empty
Shapes == {"object", "array", "scalar", "null", "absent"}

\* isinstance(data, dict)
IsDict(body) == body.shape = "object"

\* the keys that take part in an error mapping
ErrorKeys(errors) == {e[1] : e \in errors}

\* the error raised for a body that is not a JSON object
NotAnObject == {<<"non_field_errors", "Request body should be a single JSON object">>}

\* run_validation raising its message as the detail of the field named "detail"
run_validation_detail_key(body, super_run_validation) ==
    IF ~IsDict(body)
    THEN [errors |-> {<<"detail", "Request body should be a single JSON object">>},
          ran |-> {}, data |-> <<>>]
    ELSE super_run_validation

\* WriteSerializer.run_validation(data), super_run_validation being what
\* super(WriteSerializer, self).run_validation(data) gives for the serializer
WriteSerializer_run_validation(body, super_run_validation) ==
    IF ~IsDict(body)
    THEN [errors |-> NotAnObject, ran |-> {}, data |-> <<>>]
    ELSE super_run_validation

----------------------------------------------------------------------------
(* CampaignEvent *)

TYPE_FLOW == "F"
TYPE_MESSAGE == "M"

\* CampaignEvent.UNIT_CONFIG: (internal code, label, API code)
UNIT_CONFIG ==
    {<<"M", "Minutes", "minutes">>, <<"H", "Hours", "hours">>,
     <<"D", "Days", "days">>, <<"W", "Weeks", "weeks">>}

\* extract_constants(config, reverse): the mapping as a set of <<key, value>>
extract_constants(config, reverse) ==
    IF reverse THEN {<<t[3], t[1]>> : t \in config}
               ELSE {<<t[1], t[3]>> : t \in config}

\* dict[key] on a mapping given as a set of pairs
Lookup(mapping, key) == (CHOOSE p \in mapping : p[1] = key)[2]

\* CampaignEventWriteSerializer.UNITS
UNITS == extract_constants(UNIT_CONFIG, TRUE)

\* UNITS.keys(), the choices of the unit field
UNITS_keys == {p[1] : p \in UNITS}

\* self.instance is None
NoEvent ==
    [exists |-> FALSE, campaign |-> None, event_type |-> None, flow |-> NoFlow,
     message |-> None, offset |-> 0, unit |-> None, delivery_hour |-> 0,
     relative_to |-> None]

\* a declared field raising its own error, or a validate_<field> method raising
FieldError(name, r) == IF r.raised THEN {<<name, r.detail>>} ELSE {}

\* campaign = fields.CampaignField(required=True)
CampaignEvent_campaign(raw) ==
    IF raw = Absent THEN Raise("This field is required.") ELSE Return(raw)

\* offset = serializers.IntegerField(required=True)
CampaignEvent_offset(raw) == Return(raw)

\* unit = serializers.ChoiceField(required=True, choices=UNITS.keys())
CampaignEvent_unit(raw) ==
    IF raw \in UNITS_keys THEN Return(raw) ELSE Raise("Not a valid choice.")

\* delivery_hour = serializers.IntegerField(required=True, min_value=-1, max_value=23)
CampaignEvent_delivery_hour(raw) ==
    IF raw < -1 THEN Raise("Ensure this value is greater than or equal to -1.")
    ELSE IF raw > 23 THEN Raise("Ensure this value is less than or equal to 23.")
    ELSE Return(raw)

\* relative_to = fields.ContactFieldField(required=True)
CampaignEvent_relative_to(raw) ==
    IF raw = Absent THEN Raise("This field is required.") ELSE Return(raw)

\* message = serializers.CharField(required=False, max_length=320): an absent key is
\* skipped (data.get gives None), a blank string is refused
CampaignEvent_message(raw) ==
    IF raw = Absent THEN Return(None)
    ELSE IF raw = "" THEN Raise("This field may not be blank.")
    ELSE Return(raw)

\* flow = fields.FlowField(required=False): an absent key is skipped
CampaignEvent_flow(raw) == Return(raw)

\* CampaignEventWriteSerializer.validate_unit
CampaignEventWriteSerializer_validate_unit(value) == Return(Lookup(UNITS, value))

\* validate_campaign letting the campaign of an existing event change
validate_campaign_unchecked(instance, value) == Return(value)

\* CampaignEventWriteSerializer.validate_campaign
CampaignEventWriteSerializer_validate_campaign(instance, value) ==
    IF instance.exists /\ Truthy(value) /\ instance.campaign # value
    THEN Raise("Cannot change campaign for existing events")
    ELSE Return(value)

\* validate refusing only a body with neither a message nor a flow
validate_neither_only(data) ==
    IF ~Truthy(data.message) /\ data.flow = NoFlow
    THEN Raise("Flow UUID or a message text required.")
    ELSE Return(data)

\* CampaignEventWriteSerializer.validate
CampaignEventWriteSerializer_validate(data) ==
    LET message == data.message
        flow == data.flow
    IN  IF (Truthy(message) /\ flow # NoFlow) \/ (~Truthy(message) /\ flow = NoFlow)
        THEN Raise("Flow UUID or a message text required.")
        ELSE Return(data)

\* the field was in the body and accepted its value
Accepted(r) == ~r.raised /\ r.detail # "skip"

\* a declared field followed by its validate_<field> method, which runs only on a
\* value the field accepted
Then(r, validated) == IF r.raised \/ r.detail = "skip" THEN r ELSE validated

\* the fields of CampaignEventWriteSerializer in declared order, each with its
\* validate_<field> method: the value or the error of every field
CampaignEvent_fields(data, instance) ==
    [campaign |-> LET r == CampaignEvent_campaign(data.campaign)
                  IN  Then(r, CampaignEventWriteSerializer_validate_campaign(instance, r.value)),
     offset |-> CampaignEvent_offset(data.offset),
     unit |-> LET r == CampaignEvent_unit(data.unit)
              IN  Then(r, CampaignEventWriteSerializer_validate_unit(r.value)),
     delivery_hour |-> CampaignEvent_delivery_hour(data.delivery_hour),
     relative_to |-> CampaignEvent_relative_to(data.relative_to),
     message |-> CampaignEvent_message(data.message),
     flow |-> CampaignEvent_flow(data.flow)]

\* the validators that ran on the fields of a CampaignEvent body
CampaignEvent_ran(data) ==
    {"campaign", "offset", "unit", "delivery_hour", "relative_to", "message", "flow"}
    \cup (IF Accepted(CampaignEvent_campaign(data.campaign)) THEN {"validate_campaign"} ELSE {})
    \cup (IF Accepted(CampaignEvent_unit(data.unit)) THEN {"validate_unit"} ELSE {})

\* Serializer.run_validation on a JSON object: the errors of all fields together,
\* and the cross-field validate only when no field raised
CampaignEvent_run_validation(data, instance) ==
    LET f == CampaignEvent_fields(data, instance)
        errors == UNION {FieldError(k, f[k]) : k \in DOMAIN f}
        value == [k \in DOMAIN f |-> f[k].value]
    IN  IF errors # {}
        THEN [errors |-> errors, ran |-> CampaignEvent_ran(data), data |-> <<>>]
        ELSE LET v == CampaignEventWriteSerializer_validate(value)
             IN  [errors |-> FieldError("non_field_errors", v),
                  ran |-> CampaignEvent_ran(data) \cup {"validate"},
                  data |-> v.value]

\* Flow.create_single_message(org, user, message): a new hidden flow sending message
Flow_create_single_message(table, message) ==
    Append(table, [single |-> TRUE, text |-> message])

\* Flow.update_single_message_flow(message) on the flow in row id
Flow_update_single_message_flow(table, id, message) ==
    [table EXCEPT ![id].text = message]

\* CampaignEvent.create_flow_event(org, user, campaign, relative_to, offset, unit,
\* flow, delivery_hour)
CampaignEvent_create_flow_event(campaign, relative_to, offset, unit, flow, delivery_hour) ==
    [exists |-> TRUE, campaign |-> campaign, event_type |-> TYPE_FLOW, flow |-> flow,
     message |-> None, offset |-> offset, unit |-> unit,
     delivery_hour |-> delivery_hour, relative_to |-> relative_to]

\* CampaignEvent.create_message_event(org, user, campaign, relative_to, offset, unit,
\* message, delivery_hour): the event of the single-message flow in row flow
CampaignEvent_create_message_event(campaign, relative_to, offset, unit, message, delivery_hour, flow) ==
    [exists |-> TRUE, campaign |-> campaign, event_type |-> TYPE_MESSAGE, flow |-> flow,
     message |-> message, offset |-> offset, unit |-> unit,
     delivery_hour |-> delivery_hour, relative_to |-> relative_to]

\* set_flow leaving the message of the event in place
set_flow_keeping_message(instance, table, flow) ==
    [instance |-> [instance EXCEPT !.flow = flow, !.event_type = TYPE_FLOW],
     flows |-> table,
     calls |-> <<>>]

\* save, the branch of an existing instance set to a flow
CampaignEvent_set_flow(instance, table, flow) ==
    [instance |-> [instance EXCEPT !.flow = flow, !.event_type = TYPE_FLOW,
                                   !.message = None],
     flows |-> table,
     calls |-> <<>>]

\* set_message updating the flow of the event in place whatever its type
set_message_in_place(instance, table, message) ==
    [instance |-> [instance EXCEPT !.message = message, !.event_type = TYPE_MESSAGE],
     flows |-> Flow_update_single_message_flow(table, instance.flow, message),
     calls |-> <<(<<"update_single_message_flow", instance.flow, message>>)>>]

\* save, the branch of an existing instance set to a message
CampaignEvent_set_message(instance, table, message) ==
    IF instance.event_type # TYPE_MESSAGE
    THEN [instance |-> [instance EXCEPT !.message = message, !.flow = Len(table) + 1,
                                        !.event_type = TYPE_MESSAGE],
          flows |-> Flow_create_single_message(table, message),
          calls |-> <<(<<"Flow.create_single_message", message>>)>>]
    ELSE [instance |-> [instance EXCEPT !.message = message],
          flows |-> Flow_update_single_message_flow(table, instance.flow, message),
          calls |-> <<(<<"update_single_message_flow", instance.flow, message>>)>>]

\* save, the other attributes of an existing instance
CampaignEvent_set_attributes(instance, data) ==
    [instance EXCEPT !.offset = data.offset, !.unit = data.unit,
                     !.delivery_hour = data.delivery_hour,
                     !.relative_to = data.relative_to]

\* CampaignEventWriteSerializer.save: the instance, the flow table and the calls made
CampaignEventWriteSerializer_save(instance, table, data) ==
    IF instance.exists
    THEN LET set == IF data.flow # NoFlow
                    THEN CampaignEvent_set_flow(instance, table, data.flow)
                    ELSE CampaignEvent_set_message(instance, table, data.message)
         IN  [instance |-> CampaignEvent_set_attributes(set.instance, data),
              flows |-> set.flows,
              calls |-> set.calls \o <<(<<"save">>), (<<"update_flow_name">>)>>]
    ELSE IF data.flow # NoFlow
    THEN [instance |-> CampaignEvent_create_flow_event(data.campaign, data.relative_to,
                           data.offset, data.unit, data.flow, data.delivery_hour),
          flows |-> table,
          calls |-> <<(<<"CampaignEvent.create_flow_event", data.flow>>),
                      (<<"update_flow_name">>)>>]
    ELSE [instance |-> CampaignEvent_create_message_event(data.campaign, data.relative_to,
                           data.offset, data.unit, data.message, data.delivery_hour,
                           Len(table) + 1),
          flows |-> Flow_create_single_message(table, data.message),
          calls |-> <<(<<"CampaignEvent.create_message_event", data.message>>),
                      (<<"update_flow_name">>)>>]

\* CampaignEventReadSerializer.get_flow: the flow reported for an event, 0 for null
CampaignEventReadSerializer_get_flow(obj) ==
    IF obj.event_type = TYPE_FLOW THEN obj.flow ELSE NoFlow


----------------------------------------------------------------------------
(* Contact *)

\* the URNs of the model, normalized
URNs == {"tel:1", "tel:2"}

\* self.instance is None; no contact owns the URN
NoContact == 0

\* the contact groups fields.ContactGroupField resolves, by uuid
GroupTable == [gs |-> [is_dynamic |-> FALSE], gd |-> [is_dynamic |-> TRUE]]

\* self.context['contact_fields'], by key
ContactFieldKeys == {"age"}

\* the lookup of a request without query parameters
NoLookup == [key |-> "none", uuid |-> NoContact, urn |-> None]

\* the elements of a list
Range(list) == {list[i] : i \in DOMAIN list}

\* the view resolving the lookup values of the request to the instance it binds
get_object(lookup_values) ==
    IF lookup_values.key = "uuid" THEN lookup_values.uuid
    ELSE IF lookup_values.key = "urns__urn" THEN urn_owner[lookup_values.urn]
    ELSE NoContact

\* Contact.from_urn(org, urn)
Contact_from_urn(urn) == urn_owner[urn]

\* fields.validate_urn(value)
fields_validate_urn(value) ==
    IF value \in URNs THEN Return(value) ELSE Raise("Invalid URN")

\* fields.URNListField(required=False): the list of URNs, each validated
fields_URNListField(raw) ==
    IF raw = AbsentList THEN Skip(AbsentList)
    ELSE IF raw = <<None>> THEN Raise("This field may not be null.")
    ELSE IF \E i \in DOMAIN raw : fields_validate_urn(raw[i]).raised THEN Raise("Invalid URN")
    ELSE Return(raw)

\* fields.ContactGroupField(many=True, required=False): the groups of the organization
\* the body names
fields_ContactGroupField(raw) ==
    IF raw = AbsentList THEN Skip(AbsentList)
    ELSE IF \E i \in DOMAIN raw : raw[i] \notin DOMAIN GroupTable THEN Raise("No such object")
    ELSE Return(raw)

\* fields.ContactField(many=True, required=False): the contacts of the organization
\* the body names
fields_ContactField(raw) ==
    IF raw = AbsentContacts THEN Skip(AbsentContacts)
    ELSE IF \E i \in DOMAIN raw : raw[i] \notin DOMAIN contacts THEN Raise("No such object")
    ELSE Return(raw)

\* name = serializers.CharField(required=False, max_length=64, allow_null=True)
Contact_name(raw) ==
    IF raw = Absent THEN Skip(Absent)
    ELSE IF raw = "" THEN Raise("This field may not be blank.")
    ELSE Return(raw)

\* language = serializers.CharField(required=False, min_length=3, max_length=3,
\* allow_null=True)
Contact_language(raw) ==
    IF raw = Absent THEN Skip(Absent)
    ELSE IF raw = None THEN Return(raw)
    ELSE IF Len(raw) < 3 THEN Raise("Ensure this field has at least 3 characters.")
    ELSE IF Len(raw) > 3 THEN Raise("Ensure this field has no more than 3 characters.")
    ELSE Return(raw)

\* fields = serializers.DictField(required=False)
Contact_fields_field(raw) ==
    IF raw = AbsentDict THEN Skip(AbsentDict) ELSE Return(raw)

\* validate_groups that looks at the groups alone
validate_groups_dynamic_only(self, value) ==
    IF \E i \in DOMAIN value : GroupTable[value[i]].is_dynamic
    THEN Raise("Can't add contact to dynamic group")
    ELSE Return(value)

\* ContactWriteSerializer.validate_groups
ContactWriteSerializer_validate_groups(self, value) ==
    IF \E i \in DOMAIN value : GroupTable[value[i]].is_dynamic
    THEN Raise("Can't add contact to dynamic group")
    ELSE IF /\ self.instance # NoContact
            /\ (contacts[self.instance].is_blocked \/ contacts[self.instance].is_stopped)
            /\ value # <<>>
    THEN Raise("Blocked or stopped contacts can't be added to groups")
    ELSE Return(value)

\* ContactWriteSerializer.validate_fields
ContactWriteSerializer_validate_fields(self, value) ==
    IF \E f \in value : f[1] \notin ContactFieldKeys
    THEN Raise("Invalid contact field key")
    ELSE Return(value)

\* validate_urns that never asks who has a URN
validate_urns_owner_unchecked(self, value) ==
    IF self.context.lookup_values.key = "urns__urn"
    THEN Raise("Field not allowed when using URN in URL")
    ELSE IF self.context.org.is_anon /\ self.instance # NoContact
    THEN Raise("Updating URNs not allowed for anonymous organizations")
    ELSE Return(value)

\* validate_urns letting a request looked up by URN give URNs
validate_urns_with_lookup(self, value) ==
    IF self.context.org.is_anon /\ self.instance # NoContact
    THEN Raise("Updating URNs not allowed for anonymous organizations")
    ELSE IF self.instance = NoContact
            /\ \E i \in DOMAIN value : Contact_from_urn(value[i]) # NoContact
    THEN Raise("URN belongs to another contact")
    ELSE Return(value)

\* ContactWriteSerializer.validate_urns
ContactWriteSerializer_validate_urns(self, value) ==
    IF self.context.lookup_values.key = "urns__urn"
    THEN Raise("Field not allowed when using URN in URL")
    ELSE IF self.context.org.is_anon /\ self.instance # NoContact
    THEN Raise("Updating URNs not allowed for anonymous organizations")
    ELSE IF self.instance = NoContact
            /\ \E i \in DOMAIN value : Contact_from_urn(value[i]) # NoContact
    THEN Raise("URN belongs to another contact")
    ELSE Return(value)

\* ContactWriteSerializer.validate
ContactWriteSerializer_validate(self, data) ==
    IF data.urns \in {AbsentList, <<>>} /\ self.context.lookup_values.key = "urns__urn"
    THEN LET url_urn == fields_validate_urn(self.context.lookup_values.urn)
         IN  IF url_urn.raised THEN url_urn
             ELSE Return([data EXCEPT !.urns = <<url_urn.value>>])
    ELSE Return(data)

\* the fields of ContactWriteSerializer in declared order, each with its
\* validate_<field> method: the value or the error of every field
Contact_fields(self, data) ==
    [name |-> Contact_name(data.name),
     language |-> Contact_language(data.language),
     urns |-> LET r == fields_URNListField(data.urns)
              IN  Then(r, ContactWriteSerializer_validate_urns(self, r.value)),
     groups |-> LET r == fields_ContactGroupField(data.groups)
                IN  Then(r, ContactWriteSerializer_validate_groups(self, r.value)),
     fields |-> LET r == Contact_fields_field(data.fields)
                IN  Then(r, ContactWriteSerializer_validate_fields(self, r.value))]

\* the validators that ran on the fields of a Contact body
Contact_ran(data) ==
    {"name", "language", "urns", "groups", "fields"}
    \cup (IF Accepted(fields_URNListField(data.urns)) THEN {"validate_urns"} ELSE {})
    \cup (IF Accepted(fields_ContactGroupField(data.groups)) THEN {"validate_groups"} ELSE {})
    \cup (IF Accepted(Contact_fields_field(data.fields)) THEN {"validate_fields"} ELSE {})

\* Serializer.run_validation on a JSON object: the errors of all fields together,
\* and the cross-field validate only when no field raised
Contact_run_validation(self, data) ==
    LET f == Contact_fields(self, data)
        errors == UNION {FieldError(k, f[k]) : k \in DOMAIN f}
        value == [k \in DOMAIN f |-> f[k].value]
    IN  IF errors # {}
        THEN [errors |-> errors, ran |-> Contact_ran(data), data |-> <<>>]
        ELSE LET v == ContactWriteSerializer_validate(self, value)
             IN  [errors |-> FieldError("non_field_errors", v),
                  ran |-> Contact_ran(data) \cup {"validate"},
                  data |-> v.value]


\* validated_data.get(key) of a scalar field
Get(value) == IF value = Absent THEN None ELSE value

\* Contact.update_urns(user, urns): the contact gets exactly these URNs, a URN of
\* another contact moving to it and its other URNs being detached
Contact_update_urns(owner, id, urns) ==
    [u \in DOMAIN owner |->
        IF u \in Range(urns) THEN id
        ELSE IF owner[u] = id THEN NoContact
        ELSE owner[u]]

\* Contact.get_or_create(org, user, name, urns, language): the contact that has one of
\* the URNs, or else a new contact; the URNs nobody has become the contact's
Contact_get_or_create(table, owner, name, urns, language) ==
    LET existing == {owner[u] : u \in Range(urns)} \ {NoContact}
        id == IF existing # {} THEN CHOOSE c \in existing : \A d \in existing : c <= d
              ELSE Len(table) + 1
    IN  [contacts |-> IF existing # {} THEN table
                      ELSE Append(table, [name |-> name, language |-> language,
                                          is_blocked |-> FALSE, is_stopped |-> FALSE,
                                          groups |-> {}, fields |-> {}]),
         urn_owner |-> [u \in DOMAIN owner |->
                           IF u \in Range(urns) /\ owner[u] = NoContact THEN id
                           ELSE owner[u]],
         instance |-> id]

\* Contact.set_field(user, key, value) for every item of the dict
Contact_set_fields(old, custom_fields) ==
    {f \in old : \A g \in custom_fields : g[1] # f[1]} \cup custom_fields

\* save, the branch of an existing instance: name, language and URNs
Contact_update_instance(self, data) ==
    LET name == Get(data.name)
        language == Get(data.language)
        inst == contacts[self.instance]
        set_name == data.name # Absent /\ name # inst.name
        set_language == data.language # Absent /\ language # inst.language
        set_urns == data.urns # AbsentList
    IN  [contacts |-> [contacts EXCEPT ![self.instance] =
                          [inst EXCEPT !.name = IF set_name THEN name ELSE @,
                                       !.language = IF set_language THEN language ELSE @]],
         urn_owner |-> IF set_urns THEN Contact_update_urns(urn_owner, self.instance, data.urns)
                       ELSE urn_owner,
         instance |-> self.instance,
         calls |-> (IF set_urns THEN <<(<<"update_urns", data.urns>>)>> ELSE <<>>)
                   \o (IF set_name \/ set_language THEN <<(<<"save">>)>> ELSE <<>>)]

\* save, the branch without an instance
Contact_create_instance(self, data) ==
    LET urns == IF data.urns = AbsentList THEN <<>> ELSE data.urns
        c == Contact_get_or_create(contacts, urn_owner, Get(data.name), urns,
                                   Get(data.language))
    IN  [contacts |-> c.contacts, urn_owner |-> c.urn_owner, instance |-> c.instance,
         calls |-> <<(<<"Contact.get_or_create", urns>>)>>]

\* save, the custom fields and the groups of the instance
Contact_update_fields_groups(s, data) ==
    LET inst == s.contacts[s.instance]
        set_fields == data.fields # AbsentDict
        set_groups == data.groups # AbsentList
    IN  [s EXCEPT
           !.contacts[s.instance] =
               [inst EXCEPT !.fields = IF set_fields THEN Contact_set_fields(@, data.fields)
                                       ELSE @,
                            !.groups = IF set_groups THEN Range(data.groups) ELSE @],
           !.calls = @ \o (IF set_fields THEN <<(<<"set_field", data.fields>>)>> ELSE <<>>)
                       \o (IF set_groups THEN <<(<<"update_static_groups", data.groups>>)>>
                           ELSE <<>>)]

\* ContactWriteSerializer.save: the tables, the instance and the calls made
ContactWriteSerializer_save(self, data) ==
    Contact_update_fields_groups(
        IF self.instance # NoContact THEN Contact_update_instance(self, data)
        ELSE Contact_create_instance(self, data),
        data)

----------------------------------------------------------------------------
(* Broadcast *)

\* text = serializers.CharField(required=True, max_length=480)
Broadcast_text(raw) ==
    IF raw = Absent THEN Raise("This field is required.")
    ELSE IF raw = "" THEN Raise("This field may not be blank.")
    ELSE Return(raw)

\* channel = fields.ChannelField(required=False)
Broadcast_channel(raw) == IF raw = Absent THEN Skip(Absent) ELSE Return(raw)

\* data.get(key) of a list field is false: the key is missing or its list is empty
Empty(list) == list \in {AbsentList, <<>>}

\* validated_data.get(key, []) of a list field
GetList(list) == IF list = AbsentList THEN <<>> ELSE list

\* validated_data.get('contacts', [])
GetContacts(list) == IF list = AbsentContacts THEN <<>> ELSE list

\* validate that does not look at the organization
validate_recipients_only(self, data) ==
    IF Empty(data.urns) /\ GetContacts(data.contacts) = <<>> /\ Empty(data.groups)
    THEN Raise("Must provide either urns, contacts or groups")
    ELSE Return(data)

\* BroadcastWriteSerializer.validate
BroadcastWriteSerializer_validate(self, data) ==
    IF self.context.org.is_suspended
    THEN Raise("Sorry, your account is currently suspended. To enable sending messages, please contact support.")
    ELSE IF ~(~Empty(data.urns) \/ GetContacts(data.contacts) # <<>> \/ ~Empty(data.groups))
    THEN Raise("Must provide either urns, contacts or groups")
    ELSE Return(data)

\* the fields of BroadcastWriteSerializer in declared order
Broadcast_fields(data) ==
    [text |-> Broadcast_text(data.text),
     urns |-> fields_URNListField(data.urns),
     contacts |-> fields_ContactField(data.contacts),
     groups |-> fields_ContactGroupField(data.groups),
     channel |-> Broadcast_channel(data.channel)]

\* run_validation that stops at the first field that raises
run_validation_fail_fast(self, data) ==
    LET f == Broadcast_fields(data)
        order == <<"text", "urns", "contacts", "groups", "channel">>
        failed == {i \in DOMAIN order : f[order[i]].raised}
        first == CHOOSE i \in failed : \A j \in failed : i <= j
    IN  IF failed # {}
        THEN [errors |-> FieldError(order[first], f[order[first]]),
              ran |-> {order[i] : i \in 1..first}, data |-> <<>>]
        ELSE LET v == BroadcastWriteSerializer_validate(self, [k \in DOMAIN f |-> f[k].value])
             IN  [errors |-> FieldError("non_field_errors", v),
                  ran |-> Range(order) \cup {"validate"},
                  data |-> v.value]

\* Serializer.run_validation on a JSON object: the errors of all fields together,
\* and the cross-field validate only when no field raised
Broadcast_run_validation(self, data) ==
    LET f == Broadcast_fields(data)
        errors == UNION {FieldError(k, f[k]) : k \in DOMAIN f}
        value == [k \in DOMAIN f |-> f[k].value]
        ran == {"text", "urns", "contacts", "groups", "channel"}
    IN  IF errors # {}
        THEN [errors |-> errors, ran |-> ran, data |-> <<>>]
        ELSE LET v == BroadcastWriteSerializer_validate(self, value)
             IN  [errors |-> FieldError("non_field_errors", v),
                  ran |-> ran \cup {"validate"},
                  data |-> v.value]


\* save, the recipients before the loop: the contacts, then the groups
Broadcast_recipients(data) ==
    [i \in 1..Len(GetContacts(data.contacts)) |-> <<"contact", GetContacts(data.contacts)[i]>>]
    \o [i \in 1..Len(GetList(data.groups)) |-> <<"group", GetList(data.groups)[i]>>]

\* save, the loop over the URNs from the i-th on: the contact of each URN is got or
\* created and its ContactURN appended to the recipients
RECURSIVE Broadcast_resolve_urns(_, _, _)
Broadcast_resolve_urns(s, urns, i) ==
    IF i > Len(urns) THEN s
    ELSE LET c == Contact_get_or_create(s.contacts, s.urn_owner, None, <<urns[i]>>, None)
         IN  Broadcast_resolve_urns(
                 [s EXCEPT !.contacts = c.contacts,
                           !.urn_owner = c.urn_owner,
                           !.recipients = Append(@, <<"urn", urns[i]>>),
                           !.calls = Append(@, <<"Contact.get_or_create", urns[i]>>)],
                 urns, i + 1)

\* Broadcast.create(org, user, text, recipients, channel): a new row, not sent yet
Broadcast_create(s, text, channel) ==
    [s EXCEPT !.broadcasts = Append(@, [text |-> text, recipients |-> s.recipients,
                                        channel |-> channel, sent |-> FALSE]),
              !.calls = Append(@, <<"Broadcast.create", Len(s.broadcasts) + 1>>)]

\* save sending the broadcast itself before it returns
send_before_return(s, id) ==
    [s EXCEPT !.broadcasts[id].sent = TRUE,
              !.calls = Append(@, <<"send_broadcast_task", id>>)]

\* send_broadcast_task.delay(broadcast.id): the task is queued
send_broadcast_task_delay(s, id) ==
    [s EXCEPT !.tasks = Append(@, id),
              !.calls = Append(@, <<"send_broadcast_task.delay", id>>)]

\* BroadcastWriteSerializer.save: the tables, the queue and the calls made, in order
BroadcastWriteSerializer_save(self, data) ==
    LET start == [contacts |-> contacts, urn_owner |-> urn_owner,
                  broadcasts |-> broadcasts, tasks |-> tasks,
                  recipients |-> Broadcast_recipients(data), calls |-> <<>>]
        resolved == Broadcast_resolve_urns(start, GetList(data.urns), 1)
        created == Broadcast_create(resolved, data.text, Get(data.channel))
    IN  send_broadcast_task_delay(created, Len(created.broadcasts))

\* the task queue running send_broadcast_task(broadcast_id) for the oldest task
send_broadcast_task ==
    /\ tasks # <<>>
    /\ broadcasts' = [broadcasts EXCEPT ![Head(tasks)].sent = TRUE]
    /\ tasks' = Tail(tasks)
    /\ UNCHANGED <<eventVars, contactVars, nameVars, hookVars, last>>

----------------------------------------------------------------------------
(* Campaign, ContactGroup and Label *)

\* self.instance is None
NoRecord == 0

\* the rows of a queryset filtered by is_active=True
Active(table) == {i \in DOMAIN table : table[i].is_active}

\* UniqueForOrgValidator(queryset)(value) for the serializer bound to instance: the
\* name must not be the name of another record of the queryset in the organization
UniqueForOrgValidator(queryset, table, instance, value) ==
    IF \E i \in queryset \ {instance} : table[i].name = value
    THEN Raise("This field must be unique.")
    ELSE Return(value)

\* the names ContactGroup.is_valid_name and Label.is_valid_name refuse
IllegalNames == {"A$B"}

\* ContactGroup.is_valid_name(value) and Label.is_valid_name(value)
is_valid_name(value) == value \notin IllegalNames

\* a name field declared without its validators
name_without_validators(table, instance, raw) ==
    IF raw = Absent THEN Raise("This field is required.") ELSE Return(raw)

\* name = serializers.CharField(required=True, max_length=Campaign.MAX_NAME_LEN,
\* validators=[UniqueForOrgValidator(queryset=Campaign.objects.filter(is_active=True))])
Campaign_name(table, instance, raw) ==
    IF raw = Absent THEN Raise("This field is required.")
    ELSE IF raw = "" THEN Raise("This field may not be blank.")
    ELSE UniqueForOrgValidator(Active(table), table, instance, raw)

\* group = fields.ContactGroupField(required=True)
Campaign_group(raw) ==
    IF raw = Absent THEN Raise("This field is required.")
    ELSE IF raw \notin DOMAIN GroupTable THEN Raise("No such object")
    ELSE Return(raw)

\* the name of a contact group declared without UniqueForOrgValidator
ContactGroup_name_not_unique(table, instance, raw) ==
    IF raw = Absent THEN Raise("This field is required.")
    ELSE IF raw = "" THEN Raise("This field may not be blank.")
    ELSE Return(raw)

\* name = serializers.CharField(required=True, max_length=ContactGroup.MAX_NAME_LEN,
\* validators=[UniqueForOrgValidator(queryset=ContactGroup.user_groups.filter(
\* is_active=True))])
ContactGroup_name(table, instance, raw) ==
    IF raw = Absent THEN Raise("This field is required.")
    ELSE IF raw = "" THEN Raise("This field may not be blank.")
    ELSE UniqueForOrgValidator(Active(table), table, instance, raw)

\* name = serializers.CharField(required=True, max_length=Label.MAX_NAME_LEN,
\* validators=[UniqueForOrgValidator(queryset=Label.label_objects.filter(
\* is_active=True))])
Label_name(table, instance, raw) ==
    IF raw = Absent THEN Raise("This field is required.")
    ELSE IF raw = "" THEN Raise("This field may not be blank.")
    ELSE UniqueForOrgValidator(Active(table), table, instance, raw)

\* ContactGroupWriteSerializer.validate_name
ContactGroupWriteSerializer_validate_name(value) ==
    IF ~is_valid_name(value) THEN Raise("Name contains illegal characters.")
    ELSE Return(value)

\* LabelWriteSerializer.validate_name
LabelWriteSerializer_validate_name(value) ==
    IF ~is_valid_name(value) THEN Raise("Name contains illegal characters.")
    ELSE Return(value)

\* Serializer.run_validation on a JSON object for fields f that have run validators
\* ran: the errors of all fields together; these serializers define no validate, so
\* the inherited one returns the data
Named_run_validation(f, ran) ==
    LET errors == UNION {FieldError(k, f[k]) : k \in DOMAIN f}
    IN  IF errors # {}
        THEN [errors |-> errors, ran |-> ran, data |-> <<>>]
        ELSE [errors |-> {}, ran |-> ran \cup {"validate"},
              data |-> [k \in DOMAIN f |-> f[k].value]]

\* Serializer.run_validation of a CampaignWriteSerializer on a JSON object
Campaign_run_validation(instance, data) ==
    Named_run_validation(
        [name |-> Campaign_name(campaigns, instance, data.name),
         group |-> Campaign_group(data.group)],
        {"name", "group"})

\* Serializer.run_validation of a ContactGroupWriteSerializer on a JSON object
ContactGroup_run_validation(instance, data) ==
    LET r == ContactGroup_name(contactgroups, instance, data.name)
    IN  Named_run_validation(
            [name |-> Then(r, ContactGroupWriteSerializer_validate_name(r.value))],
            {"name"} \cup (IF Accepted(r) THEN {"validate_name"} ELSE {}))

\* Serializer.run_validation of a LabelWriteSerializer on a JSON object
Label_run_validation(instance, data) ==
    LET r == Label_name(labels, instance, data.name)
    IN  Named_run_validation(
            [name |-> Then(r, LabelWriteSerializer_validate_name(r.value))],
            {"name"} \cup (IF Accepted(r) THEN {"validate_name"} ELSE {}))

\* Campaign.create(org, user, name, group)
Campaign_create(table, name, group) ==
    Append(table, [name |-> name, is_active |-> TRUE, group |-> group])

\* the active record that has the name, or NoRecord
ByName(table, name) ==
    IF \E i \in Active(table) : table[i].name = name
    THEN CHOOSE i \in Active(table) : table[i].name = name
    ELSE NoRecord

\* ContactGroup.get_or_create(org, user, name) and Label.get_or_create(org, user,
\* name): the active record of that name, or else a new record
get_or_create(table, name) ==
    IF ByName(table, name) # NoRecord
    THEN [table |-> table, instance |-> ByName(table, name)]
    ELSE [table |-> Append(table, [name |-> name, is_active |-> TRUE]),
          instance |-> Len(table) + 1]

\* CampaignWriteSerializer.save
CampaignWriteSerializer_save(table, instance, data) ==
    IF instance # NoRecord
    THEN [table |-> [table EXCEPT ![instance].name = data.name,
                                  ![instance].group = data.group],
          instance |-> instance,
          calls |-> <<(<<"save", "name", "group">>)>>]
    ELSE [table |-> Campaign_create(table, data.name, data.group),
          instance |-> Len(table) + 1,
          calls |-> <<(<<"Campaign.create", data.name>>)>>]

\* ContactGroupWriteSerializer.save
ContactGroupWriteSerializer_save(table, instance, data) ==
    IF instance # NoRecord
    THEN [table |-> [table EXCEPT ![instance].name = data.name],
          instance |-> instance,
          calls |-> <<(<<"save", "name">>)>>]
    ELSE [table |-> get_or_create(table, data.name).table,
          instance |-> get_or_create(table, data.name).instance,
          calls |-> <<(<<"ContactGroup.get_or_create", data.name>>)>>]

\* LabelWriteSerializer.save
LabelWriteSerializer_save(table, instance, data) ==
    IF instance # NoRecord
    THEN [table |-> [table EXCEPT ![instance].name = data.name],
          instance |-> instance,
          calls |-> <<(<<"save", "name">>)>>]
    ELSE [table |-> get_or_create(table, data.name).table,
          instance |-> get_or_create(table, data.name).instance,
          calls |-> <<(<<"Label.get_or_create", data.name>>)>>]

----------------------------------------------------------------------------
(* FlowStart *)

\* flow = fields.FlowField()
FlowStart_flow(raw) ==
    IF raw = NoFlow THEN Raise("This field is required.")
    ELSE IF raw \notin 1..Len(flows) THEN Raise("No such object")
    ELSE Return(raw)

\* restart_participants = serializers.BooleanField(required=False)
FlowStart_restart_participants(raw) ==
    IF raw = Absent THEN Skip(Absent)
    ELSE IF raw \notin {"true", "false"} THEN Raise("Not a valid boolean.")
    ELSE Return(raw)

\* extra = serializers.JSONField(required=False), a JSON object being the set of its
\* <<key, value>> items
FlowStart_extra(raw) == IF raw = AbsentDict THEN Skip(AbsentDict) ELSE Return(raw)

\* None where a JSON object is expected
NoneDict == {<<None, None>>}

\* FlowRun.normalize_fields(value): the normalized fields and their count, a key
\* being put in lower case with an underscore for what is no letter or digit
FlowRun_normalize_fields(value) ==
    <<{<<IF item[1] = "First Name" THEN "first_name" ELSE item[1], item[2]>> :
          item \in value},
      Cardinality(value)>>

\* FlowStartWriteSerializer.validate_extra
FlowStartWriteSerializer_validate_extra(value) ==
    IF value = {} THEN Return(NoneDict)
    ELSE Return(FlowRun_normalize_fields(value)[1])

\* FlowStartWriteSerializer.validate: the ValidationError of django.forms is
\* reported under non_field_errors as well
FlowStartWriteSerializer_validate(data) ==
    LET args == Len(GetList(data.groups)) + Len(GetContacts(data.contacts))
                    + Len(GetList(data.urns))
    IN  IF args = 0 THEN Raise("Must specify at least one group, contact or URN")
        ELSE Return(data)

\* Serializer.run_validation on a JSON object: the errors of all fields together,
\* and the cross-field validate only when no field raised
FlowStart_run_validation(data) ==
    LET extra == FlowStart_extra(data.extra)
        f == [flow |-> FlowStart_flow(data.flow),
              contacts |-> fields_ContactField(data.contacts),
              groups |-> fields_ContactGroupField(data.groups),
              urns |-> fields_URNListField(data.urns),
              restart_participants |->
                  FlowStart_restart_participants(data.restart_participants),
              extra |-> Then(extra, FlowStartWriteSerializer_validate_extra(extra.value))]
        errors == UNION {FieldError(k, f[k]) : k \in DOMAIN f}
        value == [k \in DOMAIN f |-> f[k].value]
        ran == DOMAIN f \cup (IF Accepted(extra) THEN {"validate_extra"} ELSE {})
    IN  IF errors # {}
        THEN [errors |-> errors, ran |-> ran, data |-> <<>>]
        ELSE LET v == FlowStartWriteSerializer_validate(value)
             IN  [errors |-> FieldError("non_field_errors", v),
                  ran |-> ran \cup {"validate"},
                  data |-> v.value]


\* save, the loop over the URNs from the i-th on: the contact of each URN is got or
\* created and appended to the contacts
RECURSIVE FlowStart_resolve_urns(_, _, _)
FlowStart_resolve_urns(s, urns, i) ==
    IF i > Len(urns) THEN s
    ELSE LET c == Contact_get_or_create(s.contacts, s.urn_owner, None, <<urns[i]>>, None)
         IN  FlowStart_resolve_urns(
                 [s EXCEPT !.contacts = c.contacts,
                           !.urn_owner = c.urn_owner,
                           !.recipients = Append(@, c.instance),
                           !.calls = Append(@, <<"Contact.get_or_create", urns[i]>>)],
                 urns, i + 1)

\* FlowStart.create(flow, user, restart_participants, contacts, groups, extra)
FlowStart_create(s, flow, restart_participants, groups, extra) ==
    [s EXCEPT !.starts = Append(@, [flow |-> flow, contacts |-> s.recipients,
                                    groups |-> groups, extra |-> extra,
                                    restart_participants |-> restart_participants]),
              !.calls = Append(@, <<"FlowStart.create", flow>>)]

\* FlowStartWriteSerializer.save
FlowStartWriteSerializer_save(data) ==
    LET start == [contacts |-> contacts, urn_owner |-> urn_owner, starts |-> starts,
                  recipients |-> GetContacts(data.contacts), calls |-> <<>>]
        resolved == FlowStart_resolve_urns(start, GetList(data.urns), 1)
        restart_participants ==
            IF data.restart_participants = Absent THEN "true" ELSE data.restart_participants
    IN  FlowStart_create(resolved, data.flow, restart_participants, GetList(data.groups),
                         IF data.extra = AbsentDict THEN NoneDict ELSE data.extra)

----------------------------------------------------------------------------
(* ResthookSubscriber *)

\* the Resthook table: own tells the resthooks of the organization of the request
\* from those of another organization, which may have the same slug
Resthooks ==
    <<[slug |-> "new-order", own |-> TRUE, is_active |-> TRUE],
      [slug |-> "new-user", own |-> FALSE, is_active |-> TRUE],
      [slug |-> "new-user", own |-> TRUE, is_active |-> TRUE],
      [slug |-> "gone", own |-> TRUE, is_active |-> FALSE],
      [slug |-> "theirs", own |-> FALSE, is_active |-> TRUE]>>

\* resthook = serializers.CharField(required=True)
ResthookSubscriber_resthook(raw) ==
    IF raw = Absent THEN Raise("This field is required.")
    ELSE IF raw = "" THEN Raise("This field may not be blank.")
    ELSE Return(raw)

\* the strings URLValidator accepts
URLs == {"http://a.io", "http://b.io"}

\* target_url = serializers.URLField(required=True)
ResthookSubscriber_target_url(raw) ==
    IF raw = Absent THEN Raise("This field is required.")
    ELSE IF raw \notin URLs THEN Raise("Enter a valid URL.")
    ELSE Return(raw)

\* validate_resthook that looks for the slug alone
validate_resthook_by_slug(value) ==
    LET found == {r \in DOMAIN Resthooks : Resthooks[r].slug = value}
    IN  IF found = {} THEN Raise("No resthook with slug")
        ELSE Return(CHOOSE r \in found : \A q \in found : r <= q)

\* ResthookSubscriberWriteSerializer.validate_resthook: the first active resthook of
\* the organization that has the slug
ResthookSubscriberWriteSerializer_validate_resthook(value) ==
    LET found == {r \in DOMAIN Resthooks :
                     /\ Resthooks[r].is_active
                     /\ Resthooks[r].own
                     /\ Resthooks[r].slug = value}
    IN  IF found = {} THEN Raise("No resthook with slug")
        ELSE Return(CHOOSE r \in found : \A q \in found : r <= q)

\* ResthookSubscriberWriteSerializer.validate
ResthookSubscriberWriteSerializer_validate(data) ==
    IF \E i \in DOMAIN subscribers :
           /\ subscribers[i].resthook = data.resthook
           /\ subscribers[i].target_url = data.target_url
           /\ subscribers[i].is_active
    THEN Raise("URL is already subscribed to this event.")
    ELSE Return(data)

\* Serializer.run_validation on a JSON object: the errors of all fields together,
\* and the cross-field validate only when no field raised
ResthookSubscriber_run_validation(data) ==
    LET resthook == ResthookSubscriber_resthook(data.resthook)
        f == [resthook |->
                  Then(resthook,
                       ResthookSubscriberWriteSerializer_validate_resthook(resthook.value)),
              target_url |-> ResthookSubscriber_target_url(data.target_url)]
        errors == UNION {FieldError(k, f[k]) : k \in DOMAIN f}
        value == [k \in DOMAIN f |-> f[k].value]
        ran == DOMAIN f \cup (IF Accepted(resthook) THEN {"validate_resthook"} ELSE {})
    IN  IF errors # {}
        THEN [errors |-> errors, ran |-> ran, data |-> <<>>]
        ELSE LET v == ResthookSubscriberWriteSerializer_validate(value)
             IN  [errors |-> FieldError("non_field_errors", v),
                  ran |-> ran \cup {"validate"},
                  data |-> v.value]


\* resthook.add_subscriber(target_url, user)
Resthook_add_subscriber(table, resthook, target_url) ==
    Append(table, [resthook |-> resthook, target_url |-> target_url, is_active |-> TRUE])

\* ResthookSubscriberWriteSerializer.save
ResthookSubscriberWriteSerializer_save(table, data) ==
    [table |-> Resthook_add_subscriber(table, data.resthook, data.target_url),
     calls |-> <<(<<"resthook.add_subscriber", data.resthook, data.target_url>>)>>]

----------------------------------------------------------------------------
(* The requests of the campaign event endpoint *)

\* the most hidden single-message flows the flow table gets
MaxSingleFlows == 2

\* the flows users built, rows 1 and 2 of the flow table
UserFlows == {1, 2}

Campaigns == {"c1", "c2"}

\* the bodies a client posts to the campaign event endpoint
CampaignEventBodies ==
    {[shape |-> "object", data |-> d] :
        d \in [campaign : Campaigns \cup {Absent}, offset : {1},
               unit : {"days", "weeks"}, delivery_hour : {-1},
               relative_to : {"joined"}, message : {Absent, "", "hi", "bye"},
               flow : UserFlows \cup {NoFlow}]}
    \cup {[shape |-> s, data |-> <<>>] : s \in Shapes \ {"object"}}

\* one request to the endpoint with the serializer bound to instance
CampaignEventRequest(body, instance) ==
    \E v \in {WriteSerializer_run_validation(
                 body, CampaignEvent_run_validation(body.data, instance))} :
        IF v.errors # {}
        THEN /\ last' = [ser |-> "CampaignEvent", shape |-> body.shape, data |-> body.data,
                         instance |-> instance, errors |-> v.errors, ran |-> v.ran,
                         validated |-> <<>>, calls |-> <<>>, saved |-> FALSE]
             /\ UNCHANGED <<eventVars, contactVars, broadcastVars, nameVars, hookVars>>
        ELSE \E s \in {CampaignEventWriteSerializer_save(instance, flows, v.data)} :
             /\ Len(s.flows) <= Cardinality(UserFlows) + MaxSingleFlows
             /\ event' = s.instance
             /\ flows' = s.flows
             /\ UNCHANGED <<contactVars, broadcastVars, nameVars, hookVars>>
             /\ last' = [ser |-> "CampaignEvent", shape |-> body.shape, data |-> body.data,
                         instance |-> instance, errors |-> {}, ran |-> v.ran,
                         validated |-> v.data, calls |-> s.calls, saved |-> TRUE]

\* POST of one of the bodies without a lookup: the serializer has no instance
CampaignEventCreate(bodies) ==
    /\ ~event.exists
    /\ \E body \in bodies : CampaignEventRequest(body, NoEvent)

\* POST of one of the bodies with the uuid of the event: the serializer is bound to it
CampaignEventUpdate(bodies) ==
    /\ event.exists
    /\ \E body \in bodies : CampaignEventRequest(body, event)

\* the state before any request of an organization with these contacts and these
\* owners of the URNs: no event, two flows of the user, one released record in each
\* table of named records, one subscriber that was removed
Idle(people, owner) ==
    /\ event = NoEvent
    /\ flows = <<[single |-> FALSE, text |-> None], [single |-> FALSE, text |-> None]>>
    /\ contacts = people
    /\ urn_owner = owner
    /\ broadcasts = <<>>
    /\ tasks = <<>>
    /\ campaigns = <<[name |-> "A", is_active |-> FALSE, group |-> "gs"]>>
    /\ contactgroups = <<[name |-> "A", is_active |-> FALSE]>>
    /\ labels = <<[name |-> "A", is_active |-> FALSE]>>
    /\ starts = <<>>
    /\ subscribers = <<[resthook |-> 1, target_url |-> "http://a.io", is_active |-> FALSE]>>
    /\ last = NoRequest

\* an organization without contacts
InitOrg ==
    /\ org = [is_anon |-> FALSE, is_suspended |-> FALSE]
    /\ Idle(<<>>, [u \in URNs |-> NoContact])

NextEvent ==
    \/ CampaignEventCreate(CampaignEventBodies)
    \/ CampaignEventUpdate(CampaignEventBodies)

SpecEvent == InitOrg /\ [][NextEvent]_vars

----------------------------------------------------------------------------
(* The requests of the contact endpoint *)

\* the most contacts the contact table gets
MaxContacts == 2

\* the bodies a client posts to the contact endpoint
ContactBodies ==
    {[shape |-> "object", data |-> d] :
        d \in [name : {Absent, "Ann"}, language : {Absent},
               urns : {AbsentList, <<None>>, <<>>, <<"tel:1">>, <<"tel:1", "tel:2">>,
                       <<"tel:x">>},
               groups : {AbsentList}, fields : {AbsentDict}]}
    \cup {[shape |-> s, data |-> <<>>] : s \in Shapes \ {"object"}}

\* the lookups of a request: none, the uuid of a contact, a URN
ContactLookups ==
    {NoLookup}
    \cup {[key |-> "uuid", uuid |-> c, urn |-> None] : c \in DOMAIN contacts}
    \cup {[key |-> "urns__urn", uuid |-> NoContact, urn |-> u] : u \in URNs}

\* one request to the contact endpoint
ContactRequest(body, lookup_values) ==
    \E self \in {[instance |-> get_object(lookup_values),
                  context |-> [org |-> org, lookup_values |-> lookup_values]]} :
    \E v \in {WriteSerializer_run_validation(
                 body, Contact_run_validation(self, body.data))} :
        IF v.errors # {}
        THEN /\ last' = [ser |-> "Contact", shape |-> body.shape, data |-> body.data,
                         lookup_values |-> lookup_values, instance |-> self.instance,
                         errors |-> v.errors, ran |-> v.ran, validated |-> <<>>,
                         calls |-> <<>>, saved |-> FALSE]
             /\ UNCHANGED <<eventVars, contactVars, broadcastVars, nameVars, hookVars>>
        ELSE \E s \in {ContactWriteSerializer_save(self, v.data)} :
             /\ Len(s.contacts) <= MaxContacts
             /\ contacts' = s.contacts
             /\ urn_owner' = s.urn_owner
             /\ UNCHANGED <<eventVars, org, broadcastVars, nameVars, hookVars>>
             /\ last' = [ser |-> "Contact", shape |-> body.shape, data |-> body.data,
                         lookup_values |-> lookup_values, instance |-> self.instance,
                         errors |-> {}, ran |-> v.ran, validated |-> v.data,
                         calls |-> s.calls, saved |-> TRUE]

\* POST of one of the bodies that binds no instance: no lookup, or a URN no contact has
ContactCreate(bodies) ==
    \E lookup_values \in ContactLookups :
        /\ get_object(lookup_values) = NoContact
        /\ \E body \in bodies : ContactRequest(body, lookup_values)

\* POST of one of the bodies that binds the contact the lookup finds
ContactUpdate(bodies) ==
    \E lookup_values \in ContactLookups :
        /\ get_object(lookup_values) # NoContact
        /\ \E body \in bodies : ContactRequest(body, lookup_values)

InitContact ==
    /\ org \in [is_anon : BOOLEAN, is_suspended : {FALSE}]
    /\ Idle(<<>>, [u \in URNs |-> NoContact])

NextContact == ContactCreate(ContactBodies) \/ ContactUpdate(ContactBodies)

SpecContact == InitContact /\ [][NextContact]_vars

\* the bodies a client posts to the contact endpoint to set the groups of a contact
MembershipBodies ==
    {[shape |-> "object", data |-> d] :
        d \in [name : {Absent}, language : {Absent},
               urns : {AbsentList},
               groups : {AbsentList, <<>>, <<"gs">>, <<"gd">>, <<"gs", "gd">>},
               fields : {AbsentDict}]}
    \cup {[shape |-> s, data |-> <<>>] : s \in Shapes \ {"object"}}

\* an organization with one contact, who may be blocked, stopped or both
InitMembers ==
    /\ org = [is_anon |-> FALSE, is_suspended |-> FALSE]
    /\ \E b, t \in BOOLEAN :
           Idle(<<[name |-> "Ann", language |-> None, is_blocked |-> b,
                   is_stopped |-> t, groups |-> {}, fields |-> {}]>>,
                [u \in URNs |-> IF u = "tel:1" THEN 1 ELSE NoContact])

NextMembers == ContactCreate(MembershipBodies) \/ ContactUpdate(MembershipBodies)

SpecMembers == InitMembers /\ [][NextMembers]_vars

----------------------------------------------------------------------------
(* The requests of the broadcast endpoint *)

\* the most broadcasts the broadcast table gets
MaxBroadcasts == 2

\* the bodies a client posts to the broadcast endpoint
BroadcastBodies ==
    {[shape |-> "object", data |-> d] :
        d \in [text : {Absent, "hello"},
               urns : {AbsentList, <<>>, <<"tel:1", "tel:2">>, <<"tel:x">>},
               contacts : {AbsentContacts, <<>>, <<1>>},
               groups : {AbsentList, <<"gs">>},
               channel : {Absent}]}
    \cup {[shape |-> s, data |-> <<>>] : s \in Shapes \ {"object"}}

\* one request to the broadcast endpoint, which binds no instance
BroadcastRequest(body) ==
    \E self \in {[instance |-> NoContact, context |-> [org |-> org]]} :
    \E v \in {WriteSerializer_run_validation(
                 body, Broadcast_run_validation(self, body.data))} :
        IF v.errors # {}
        THEN /\ last' = [ser |-> "Broadcast", shape |-> body.shape, data |-> body.data,
                         instance |-> NoContact, errors |-> v.errors, ran |-> v.ran,
                         validated |-> <<>>, calls |-> <<>>, saved |-> FALSE]
             /\ UNCHANGED <<eventVars, contactVars, broadcastVars, nameVars, hookVars>>
        ELSE \E s \in {BroadcastWriteSerializer_save(self, v.data)} :
             /\ Len(s.contacts) <= MaxContacts
             /\ Len(s.broadcasts) <= MaxBroadcasts
             /\ contacts' = s.contacts
             /\ urn_owner' = s.urn_owner
             /\ broadcasts' = s.broadcasts
             /\ tasks' = s.tasks
             /\ UNCHANGED <<eventVars, org, nameVars, hookVars>>
             /\ last' = [ser |-> "Broadcast", shape |-> body.shape, data |-> body.data,
                         instance |-> NoContact, errors |-> {}, ran |-> v.ran,
                         validated |-> v.data, calls |-> s.calls, saved |-> TRUE]

\* an organization, suspended or not, with one contact that has the URN tel:1
InitBroadcast ==
    /\ org \in [is_anon : {FALSE}, is_suspended : BOOLEAN]
    /\ Idle(<<[name |-> "Ann", language |-> None, is_blocked |-> FALSE,
               is_stopped |-> FALSE, groups |-> {}, fields |-> {}]>>,
            [u \in URNs |-> IF u = "tel:1" THEN 1 ELSE NoContact])

NextBroadcast ==
    \/ \E body \in BroadcastBodies : BroadcastRequest(body)
    \/ send_broadcast_task

SpecBroadcast == InitBroadcast /\ [][NextBroadcast]_vars

----------------------------------------------------------------------------
(* The requests of the campaign, contact group and label endpoints *)

\* the most records each of the tables of named records gets
MaxRecords == 3

\* the bodies a client posts to the campaign endpoint
CampaignBodies ==
    {[shape |-> "object", data |-> d] :
        d \in [name : {Absent, "A", "B"}, group : {Absent, "gs"}]}
    \cup {[shape |-> s, data |-> <<>>] : s \in Shapes \ {"object"}}

\* the bodies a client posts to the contact group and label endpoints
NameBodies ==
    {[shape |-> "object", data |-> d] : d \in [name : {Absent, "A", "B", "A$B"}]}
    \cup {[shape |-> s, data |-> <<>>] : s \in Shapes \ {"object"}}

\* the outcome of a request to one of the three endpoints
NamedOutcome(ser, body, instance, v, s) ==
    IF v.errors # {}
    THEN [ser |-> ser, shape |-> body.shape, data |-> body.data, instance |-> instance,
          errors |-> v.errors, ran |-> v.ran, validated |-> <<>>, calls |-> <<>>,
          saved |-> FALSE]
    ELSE [ser |-> ser, shape |-> body.shape, data |-> body.data, instance |-> instance,
          errors |-> {}, ran |-> v.ran, validated |-> v.data, calls |-> s.calls,
          saved |-> TRUE]

\* one request to the campaign endpoint with the serializer bound to instance
CampaignRequest(body, instance) ==
    \E v \in {WriteSerializer_run_validation(
                 body, Campaign_run_validation(instance, body.data))} :
    \E s \in {IF v.errors # {} THEN [table |-> campaigns, calls |-> <<>>]
              ELSE CampaignWriteSerializer_save(campaigns, instance, v.data)} :
        /\ Len(s.table) <= MaxRecords
        /\ campaigns' = s.table
        /\ last' = NamedOutcome("Campaign", body, instance, v, s)
        /\ UNCHANGED <<eventVars, contactVars, broadcastVars, hookVars, contactgroups, labels>>

\* one request to the contact group endpoint with the serializer bound to instance
ContactGroupRequest(body, instance) ==
    \E v \in {WriteSerializer_run_validation(
                 body, ContactGroup_run_validation(instance, body.data))} :
    \E s \in {IF v.errors # {} THEN [table |-> contactgroups, calls |-> <<>>]
              ELSE ContactGroupWriteSerializer_save(contactgroups, instance, v.data)} :
        /\ Len(s.table) <= MaxRecords
        /\ contactgroups' = s.table
        /\ last' = NamedOutcome("ContactGroup", body, instance, v, s)
        /\ UNCHANGED <<eventVars, contactVars, broadcastVars, hookVars, campaigns, labels>>

\* one request to the label endpoint with the serializer bound to instance
LabelRequest(body, instance) ==
    \E v \in {WriteSerializer_run_validation(
                 body, Label_run_validation(instance, body.data))} :
    \E s \in {IF v.errors # {} THEN [table |-> labels, calls |-> <<>>]
              ELSE LabelWriteSerializer_save(labels, instance, v.data)} :
        /\ Len(s.table) <= MaxRecords
        /\ labels' = s.table
        /\ last' = NamedOutcome("Label", body, instance, v, s)
        /\ UNCHANGED <<eventVars, contactVars, broadcastVars, hookVars, campaigns, contactgroups>>

\* POST of one of the bodies to the campaign endpoint, with the uuid of an active
\* campaign or without
CampaignPost(bodies) ==
    \E instance \in Active(campaigns) \cup {NoRecord} :
        \E body \in bodies : CampaignRequest(body, instance)

\* POST of one of the bodies to the contact group endpoint, with the uuid of an active
\* group or without
ContactGroupPost(bodies) ==
    \E instance \in Active(contactgroups) \cup {NoRecord} :
        \E body \in bodies : ContactGroupRequest(body, instance)

\* POST of one of the bodies to the label endpoint, with the uuid of an active label
\* or without
LabelPost(bodies) ==
    \E instance \in Active(labels) \cup {NoRecord} :
        \E body \in bodies : LabelRequest(body, instance)

NextNames ==
    \/ CampaignPost(CampaignBodies)
    \/ ContactGroupPost(NameBodies)
    \/ LabelPost(NameBodies)

SpecNames == InitOrg /\ [][NextNames]_vars

----------------------------------------------------------------------------
(* The requests of the flow start and resthook subscriber endpoints *)

\* the most flow starts the requests make
MaxStarts == 2

\* the bodies a client posts to the flow start endpoint
FlowStartBodies ==
    {[shape |-> "object", data |-> d] :
        d \in [flow : {NoFlow, 1},
               contacts : {AbsentContacts},
               groups : {AbsentList, <<"gs">>},
               urns : {AbsentList, <<"tel:1">>},
               restart_participants : {Absent, "false"},
               extra : {AbsentDict, {}, {<<"First Name", "Ann">>}}]}
    \cup {[shape |-> s, data |-> <<>>] : s \in Shapes \ {"object"}}

\* the bodies a client posts to the resthook subscriber endpoint
ResthookSubscriberBodies ==
    {[shape |-> "object", data |-> d] :
        d \in [resthook : {Absent, "new-order", "new-user", "gone", "theirs", "nope"},
               target_url : {Absent, "http://a.io", "http://b.io", "a.io"}]}
    \cup {[shape |-> s, data |-> <<>>] : s \in Shapes \ {"object"}}

\* one request to the flow start endpoint
FlowStartRequest(body) ==
    \E v \in {WriteSerializer_run_validation(
                 body, FlowStart_run_validation(body.data))} :
        IF v.errors # {}
        THEN /\ last' = [ser |-> "FlowStart", shape |-> body.shape, data |-> body.data,
                         instance |-> NoRecord, errors |-> v.errors, ran |-> v.ran,
                         validated |-> <<>>, calls |-> <<>>, saved |-> FALSE]
             /\ UNCHANGED <<eventVars, contactVars, broadcastVars, nameVars, hookVars>>
        ELSE \E s \in {FlowStartWriteSerializer_save(v.data)} :
             /\ Len(s.contacts) <= MaxContacts
             /\ Len(s.starts) <= MaxStarts
             /\ contacts' = s.contacts
             /\ urn_owner' = s.urn_owner
             /\ starts' = s.starts
             /\ UNCHANGED <<eventVars, org, broadcastVars, nameVars, subscribers>>
             /\ last' = [ser |-> "FlowStart", shape |-> body.shape, data |-> body.data,
                         instance |-> NoRecord, errors |-> {}, ran |-> v.ran,
                         validated |-> v.data, calls |-> s.calls, saved |-> TRUE]

\* one request to the resthook subscriber endpoint
ResthookSubscriberRequest(body) ==
    \E v \in {WriteSerializer_run_validation(
                 body, ResthookSubscriber_run_validation(body.data))} :
        IF v.errors # {}
        THEN /\ last' = [ser |-> "ResthookSubscriber", shape |-> body.shape,
                         data |-> body.data, instance |-> NoRecord, errors |-> v.errors,
                         ran |-> v.ran, validated |-> <<>>, calls |-> <<>>,
                         saved |-> FALSE]
             /\ UNCHANGED <<eventVars, contactVars, broadcastVars, nameVars, hookVars>>
        ELSE \E s \in {ResthookSubscriberWriteSerializer_save(subscribers, v.data)} :
             /\ subscribers' = s.table
             /\ UNCHANGED <<eventVars, contactVars, broadcastVars, nameVars, starts>>
             /\ last' = [ser |-> "ResthookSubscriber", shape |-> body.shape,
                         data |-> body.data, instance |-> NoRecord, errors |-> {},
                         ran |-> v.ran, validated |-> v.data, calls |-> s.calls,
                         saved |-> TRUE]

NextHook == \E body \in ResthookSubscriberBodies : ResthookSubscriberRequest(body)

SpecHook == InitOrg /\ [][NextHook]_vars

----------------------------------------------------------------------------
(* The requests of all endpoints that have a write serializer *)

\* of a set of bodies, those that are no JSON object and those JSON objects that
\* are among the samples
Sample(bodies, samples) == {b \in bodies : b.shape # "object" \/ b.data \in samples}

\* every endpoint gets the bodies that are no JSON object and one JSON object
NextAll ==
    \/ \E body \in Sample(BroadcastBodies,
           {[text |-> "hello", urns |-> <<>>, contacts |-> <<1>>, groups |-> AbsentList,
             channel |-> Absent]}) : BroadcastRequest(body)
    \/ CampaignPost(Sample(CampaignBodies, {[name |-> "B", group |-> "gs"]}))
    \/ CampaignEventCreate(Sample(CampaignEventBodies,
           {[campaign |-> "c1", offset |-> 1, unit |-> "days", delivery_hour |-> -1,
             relative_to |-> "joined", message |-> "hi", flow |-> NoFlow]}))
    \/ CampaignEventUpdate(Sample(CampaignEventBodies,
           {[campaign |-> "c1", offset |-> 1, unit |-> "weeks", delivery_hour |-> -1,
             relative_to |-> "joined", message |-> Absent, flow |-> 1]}))
    \/ ContactCreate(Sample(ContactBodies,
           {[name |-> "Ann", language |-> Absent, urns |-> <<"tel:2">>,
             groups |-> AbsentList, fields |-> AbsentDict]}))
    \/ ContactUpdate(Sample(ContactBodies,
           {[name |-> Absent, language |-> Absent, urns |-> AbsentList,
             groups |-> AbsentList, fields |-> AbsentDict]}))
    \/ ContactGroupPost(Sample(NameBodies, {[name |-> "B"]}))
    \/ \E body \in Sample(FlowStartBodies,
           {[flow |-> 1, contacts |-> AbsentContacts, groups |-> <<"gs">>,
             urns |-> AbsentList, restart_participants |-> Absent,
             extra |-> AbsentDict]}) : FlowStartRequest(body)
    \/ LabelPost(Sample(NameBodies, {[name |-> "B"]}))
    \/ \E body \in Sample(ResthookSubscriberBodies,
           {[resthook |-> "new-order", target_url |-> "http://a.io"]}) :
               ResthookSubscriberRequest(body)

SpecAll == InitBroadcast /\ [][NextAll]_vars

----------------------------------------------------------------------------
(* Properties of the campaign event endpoint *)

\* the last request was a JSON object handled by CampaignEventWriteSerializer
\* whose fields were all accepted, so that validate ran
EventValidateRan == last.ser = "CampaignEvent" /\ "validate" \in last.ran

\* data.get('message') and data.get('flow') of the last request
LastMessage == IF last.data.message = Absent THEN None ELSE last.data.message
LastFlow == last.data.flow

\* the error validate raises
EventValidateError == {<<"non_field_errors", "Flow UUID or a message text required.">>}

\* C1: validate raises for every body with both message and flow and for every body
\* with neither, and returns the data as it got them when exactly one is given
C1_ValidateExactlyOne ==
    EventValidateRan =>
        /\ (Truthy(LastMessage) /\ LastFlow # NoFlow) =>
               (last.errors = EventValidateError /\ ~last.saved)
        /\ (~Truthy(LastMessage) /\ LastFlow = NoFlow) =>
               (last.errors = EventValidateError /\ ~last.saved)
        /\ (Truthy(LastMessage) # (LastFlow # NoFlow)) =>
               /\ last.errors = {}
               /\ last.validated =
                      [campaign |-> last.data.campaign, offset |-> last.data.offset,
                       unit |-> Lookup(UNITS, last.data.unit),
                       delivery_hour |-> last.data.delivery_hour,
                       relative_to |-> last.data.relative_to,
                       message |-> LastMessage, flow |-> LastFlow]

\* a body with both a message and a flow was refused by validate
C1_Witness ==
    /\ EventValidateRan
    /\ Truthy(LastMessage) /\ LastFlow # NoFlow
    /\ last.errors = EventValidateError

\* C2: a saved event is flow-type with no message or message-type with a message,
\* and the read serializer reports exactly one of flow and message
C2_ExactlyOneOfFlowMessage ==
    event.exists =>
        /\ \/ event.event_type = TYPE_FLOW /\ event.message = None /\ event.flow # NoFlow
           \/ event.event_type = TYPE_MESSAGE /\ Truthy(event.message)
        /\ (CampaignEventReadSerializer_get_flow(event) # NoFlow) # (event.message # None)

\* an update has turned a message event into a flow event
C2_Witness ==
    /\ last.ser = "CampaignEvent" /\ last.saved /\ last.instance.exists
    /\ last.instance.event_type = TYPE_MESSAGE
    /\ event.event_type = TYPE_FLOW

\* the calls of the request handled by this step that update a flow in place
InPlaceUpdates == {i \in DOMAIN last'.calls : last'.calls[i][1] = "update_single_message_flow"}

\* this step is a saved update of the event
EventUpdated == last'.ser = "CampaignEvent" /\ last'.saved /\ last'.instance.exists

\* C3: changing the kind of an event swaps its flow: a flow event given a message gets
\* a new single-message flow while every flow that existed stays as it was, a flow is
\* updated in place only when the event was a message event already (and then it is
\* the event's hidden flow), and a message event given a flow becomes a flow event of
\* that flow with no message
C3_KindChangeSwapsFlow ==
    [][EventUpdated =>
        /\ (event.event_type = TYPE_FLOW /\ last'.data.flow = NoFlow) =>
               /\ event'.flow \notin DOMAIN flows
               /\ flows'[event'.flow] = [single |-> TRUE, text |-> last'.data.message]
               /\ \A i \in DOMAIN flows : flows'[i] = flows[i]
               /\ InPlaceUpdates = {}
               /\ event'.event_type = TYPE_MESSAGE
        /\ \A i \in InPlaceUpdates :
               /\ event.event_type = TYPE_MESSAGE
               /\ last'.calls[i][2] = event.flow
               /\ flows[event.flow].single
        /\ \A i \in UserFlows : flows'[i] = flows[i]
        /\ (event.event_type = TYPE_MESSAGE /\ last'.data.flow # NoFlow) =>
               /\ event'.flow = last'.data.flow
               /\ event'.event_type = TYPE_FLOW
               /\ event'.message = None]_vars

\* an update has turned a flow event into a message event with a new hidden flow
C3_Witness ==
    /\ last.ser = "CampaignEvent" /\ last.saved /\ last.instance.exists
    /\ last.instance.event_type = TYPE_FLOW
    /\ event.event_type = TYPE_MESSAGE
    /\ last.calls[1][1] = "Flow.create_single_message"
    /\ flows[event.flow].single

\* C4: an update naming another campaign fails validation, and no step changes the
\* campaign of an existing event
C4_CampaignFixed ==
    [][/\ event.exists => (event'.exists /\ event'.campaign = event.campaign)
       /\ (/\ last'.ser = "CampaignEvent" /\ last'.shape = "object"
           /\ last'.instance.exists
           /\ last'.data.campaign \notin {Absent, last'.instance.campaign}) =>
              /\ ~last'.saved
              /\ <<"campaign", "Cannot change campaign for existing events">>
                     \in last'.errors]_vars

\* an update naming another campaign was refused
C4_Witness ==
    /\ last.ser = "CampaignEvent" /\ last.shape = "object" /\ last.instance.exists
    /\ last.data.campaign \notin {Absent, last.instance.campaign}
    /\ "campaign" \in ErrorKeys(last.errors)
    /\ event.campaign = last.instance.campaign

----------------------------------------------------------------------------
(* Properties of the contact endpoint *)

\* the last request was a JSON object handled by ContactWriteSerializer
ContactObject == last.ser = "Contact" /\ last.shape = "object"

\* the calls of update_urns among the calls save made for the last request
UrnUpdates == {i \in DOMAIN last.calls : last.calls[i][1] = "update_urns"}

\* C5: a contact body that has the urns key, whatever its value, fails validation under
\* the urns key when the request was looked up by URN, with and without an instance,
\* and save is not reached
C5_UrnsRefusedOnUrnLookup ==
    (/\ ContactObject
     /\ last.data.urns # AbsentList
     /\ last.lookup_values.key = "urns__urn") =>
        /\ "urns" \in ErrorKeys(last.errors)
        /\ ~last.saved
        /\ last.calls = <<>>

\* an update looked up by URN that gave URNs was refused by validate_urns
C5_Witness ==
    /\ ContactObject
    /\ last.lookup_values.key = "urns__urn"
    /\ last.instance # NoContact
    /\ last.data.urns = <<"tel:1", "tel:2">>
    /\ <<"urns", "Field not allowed when using URN in URL">> \in last.errors

\* C6: in an anonymous organization no request bound to an existing contact changes
\* the URNs of that contact, and a contact can be created with URNs
C6_AnonNeverUpdatesUrns ==
    [][(last'.ser = "Contact" /\ last'.shape = "object" /\ org.is_anon) =>
        /\ last'.instance # NoContact =>
               \A u \in URNs :
                   (urn_owner[u] = last'.instance) = (urn_owner'[u] = last'.instance)
        /\ (/\ last'.instance = NoContact
            /\ last'.lookup_values.key = "none"
            /\ last'.data.urns \in {<<"tel:1">>, <<"tel:1", "tel:2">>}
            /\ \A u \in Range(last'.data.urns) : urn_owner[u] = NoContact
            /\ Len(contacts) < MaxContacts) =>
               /\ last'.saved
               /\ \A u \in Range(last'.data.urns) : urn_owner'[u] = Len(contacts')]_vars

\* the body of the request that becomes last names a URN that a contact other than
\* the written one has
NamesUrnOfAnother ==
    /\ last'.ser = "Contact"
    /\ last'.shape = "object"
    /\ \E u \in URNs :
           /\ u \in Range(last'.data.urns)
           /\ urn_owner[u] # NoContact
           /\ urn_owner[u] # last'.instance

\* C15 as stated: on create and on update, a body whose urns names a URN of another
\* contact fails validation and no URN changes its contact
C15_NeverTakesUrnOfAnother ==
    [][NamesUrnOfAnother =>
        /\ ~last'.saved
        /\ last'.errors # {}
        /\ urn_owner' = urn_owner]_vars

\* C15: on create, and on an update in an anonymous organization or looked up by URN,
\* a body whose urns names a URN of another contact is refused with an error of the
\* field urns, which on a create without lookup is "URN belongs to another contact",
\* and neither a URN nor a contact changes
C15_CreateNeverTakesUrnOfAnother ==
    [][(/\ NamesUrnOfAnother
        /\ \/ last'.instance = NoContact
           \/ org.is_anon
           \/ last'.lookup_values.key = "urns__urn") =>
        /\ ~last'.saved
        /\ \E e \in last'.errors : e[1] = "urns"
        /\ (last'.instance = NoContact /\ last'.lookup_values.key = "none") =>
               <<"urns", "URN belongs to another contact">> \in last'.errors
        /\ last'.calls = <<>>
        /\ urn_owner' = urn_owner
        /\ contacts' = contacts]_vars

\* a create was refused because the first URN of its body is the URN of a contact,
\* and the second URN, which nobody had, still has no contact
C15_Witness ==
    /\ ContactObject
    /\ last.instance = NoContact
    /\ last.lookup_values.key = "none"
    /\ last.data.urns = <<"tel:1", "tel:2">>
    /\ urn_owner["tel:1"] # NoContact
    /\ urn_owner["tel:2"] = NoContact
    /\ <<"urns", "URN belongs to another contact">> \in last.errors
    /\ ~last.saved

\* C16: an update whose body has no urns key leaves the URNs of the contact as they
\* were and makes no call of update_urns, whatever the lookup
C16_UpdateWithoutUrnsKeepsUrns ==
    [][(/\ last'.ser = "Contact"
        /\ last'.shape = "object"
        /\ last'.instance # NoContact
        /\ last'.data.urns = AbsentList) =>
        /\ \A u \in URNs :
               (urn_owner[u] = last'.instance) = (urn_owner'[u] = last'.instance)
        /\ \A i \in DOMAIN last'.calls : last'.calls[i][1] # "update_urns"]_vars

\* the body of the last request names a dynamic group
NamesDynamicGroup ==
    /\ last.data.groups # AbsentList
    /\ \E i \in DOMAIN last.data.groups : GroupTable[last.data.groups[i]].is_dynamic

\* the last request was bound to a contact that is blocked or stopped
BoundToBlockedOrStopped ==
    /\ last.instance # NoContact
    /\ contacts[last.instance].is_blocked \/ contacts[last.instance].is_stopped

\* C14: a body that names a dynamic group is refused under groups, with and without an
\* instance, a body that names groups is refused for an instance that is blocked or
\* stopped, update_static_groups is called with static groups only and for such an
\* instance with the empty list only, and so no contact is in a dynamic group and no
\* blocked or stopped contact in any group
C14_GroupsOnlyStaticAndUnblocked ==
    /\ ContactObject =>
           /\ NamesDynamicGroup => (~last.saved /\ "groups" \in ErrorKeys(last.errors))
           /\ (BoundToBlockedOrStopped /\ last.data.groups \notin {AbsentList, <<>>}) =>
                  /\ ~last.saved
                  /\ "groups" \in ErrorKeys(last.errors)
           /\ \A i \in DOMAIN last.calls :
                  last.calls[i][1] = "update_static_groups" =>
                      /\ \A g \in Range(last.calls[i][2]) : ~GroupTable[g].is_dynamic
                      /\ BoundToBlockedOrStopped => last.calls[i][2] = <<>>
    /\ \A c \in DOMAIN contacts :
           /\ \A g \in contacts[c].groups : ~GroupTable[g].is_dynamic
           /\ (contacts[c].is_blocked \/ contacts[c].is_stopped) => contacts[c].groups = {}

\* a stopped contact was refused a static group that another contact is in, after its
\* groups were set to the empty list
C14_Witness ==
    /\ ContactObject
    /\ last.instance = 1 /\ contacts[1].is_stopped /\ ~contacts[1].is_blocked
    /\ last.data.groups = <<"gs">>
    /\ <<"groups", "Blocked or stopped contacts can't be added to groups">> \in last.errors
    /\ Len(contacts) = 2 /\ contacts[2].groups = {"gs"}

----------------------------------------------------------------------------
(* Properties of the broadcast endpoint *)

\* the last request was a JSON object handled by BroadcastWriteSerializer
BroadcastObject == last.ser = "Broadcast" /\ last.shape = "object"

\* the body names no recipient: urns, contacts and groups are missing or empty
NoRecipients(data) ==
    /\ data.urns \in {AbsentList, <<>>}
    /\ data.contacts \in {AbsentContacts, <<>>}
    /\ data.groups \in {AbsentList, <<>>}

\* C7: a request of a suspended organization fails validation whatever its body, a body
\* without recipients fails validation whatever the organization, and a broadcast
\* exists, and a send task is queued, only for an organization that is not suspended
\* and with at least one recipient
C7_BroadcastOnlyWhenAllowed ==
    /\ BroadcastObject =>
           /\ org.is_suspended => (~last.saved /\ last.errors # {})
           /\ NoRecipients(last.data) => (~last.saved /\ last.errors # {})
           /\ last.saved => (~org.is_suspended /\ ~NoRecipients(last.data))
    /\ (broadcasts # <<>> \/ tasks # <<>>) => ~org.is_suspended
    /\ \A b \in DOMAIN broadcasts : broadcasts[b].recipients # <<>>
    /\ \A t \in DOMAIN tasks : tasks[t] \in DOMAIN broadcasts

\* a suspended organization was refused a body that has a text and recipients
C7_Witness ==
    /\ BroadcastObject
    /\ org.is_suspended
    /\ last.data.text = "hello" /\ last.data.contacts = <<1>>
    /\ ErrorKeys(last.errors) = {"non_field_errors"}
    /\ broadcasts = <<>>

\* C8: the step that saves a broadcast first gets or creates the contact of every URN
\* of the body, then calls Broadcast.create, then queues the send task once for the new
\* broadcast, which is not sent when save returns; only the task sends a broadcast
C8_ResolveCreateThenQueue ==
    [][/\ Len(broadcasts') > Len(broadcasts) =>
           LET id == Len(broadcasts')
               calls == last'.calls
               urns == GetList(last'.data.urns)
           IN  /\ last'.ser = "Broadcast" /\ last'.saved
               /\ id = Len(broadcasts) + 1
               /\ Len(calls) = Len(urns) + 2
               /\ \A i \in DOMAIN urns : calls[i] = <<"Contact.get_or_create", urns[i]>>
               /\ calls[Len(urns) + 1] = <<"Broadcast.create", id>>
               /\ calls[Len(urns) + 2] = <<"send_broadcast_task.delay", id>>
               /\ \A u \in Range(urns) :
                      /\ urn_owner'[u] # NoContact
                      /\ <<"urn", u>> \in Range(broadcasts'[id].recipients)
               /\ tasks' = Append(tasks, id)
               /\ ~broadcasts'[id].sent
       /\ \A b \in DOMAIN broadcasts :
              (broadcasts'[b].sent /\ ~broadcasts[b].sent) =>
                  (tasks # <<>> /\ b = Head(tasks) /\ tasks' = Tail(tasks))]_vars

\* a broadcast to two URNs, one of a new contact, is saved, queued and not sent
C8_Witness ==
    /\ last.ser = "Broadcast" /\ last.saved
    /\ last.data.urns = <<"tel:1", "tel:2">>
    /\ urn_owner["tel:2"] = 2
    /\ tasks # <<>>
    /\ tasks[Len(tasks)] = Len(broadcasts)
    /\ ~broadcasts[Len(broadcasts)].sent

\* the fields of the body of the last request that break a rule of their own
BrokenFields ==
    (IF last.data.text = Absent THEN {"text"} ELSE {})
    \cup (IF last.data.urns = <<"tel:x">> THEN {"urns"} ELSE {})

\* C12: the errors of a broadcast body name every rule the request breaks: the rule
\* of each field, the suspended organization and the missing recipients
C12_AllViolationsReported ==
    BroadcastObject =>
        /\ BrokenFields \subseteq ErrorKeys(last.errors)
        /\ (org.is_suspended \/ NoRecipients(last.data))
               => "non_field_errors" \in ErrorKeys(last.errors)
        /\ (org.is_suspended /\ NoRecipients(last.data))
               => Cardinality({e \in last.errors : e[1] = "non_field_errors"}) = 2

\* C12, amended: the fields that break a rule of their own are reported together, one
\* entry each, and validate then does not run; when no field does, validate runs and
\* reports the first rule it finds broken, the suspended organization before the
\* missing recipients
C12_FieldErrorsTogether ==
    BroadcastObject =>
        /\ BrokenFields # {} =>
               /\ ErrorKeys(last.errors) = BrokenFields
               /\ Cardinality(last.errors) = Cardinality(BrokenFields)
               /\ "validate" \notin last.ran
               /\ {"text", "urns", "contacts", "groups", "channel"} \subseteq last.ran
        /\ BrokenFields = {} =>
               /\ "validate" \in last.ran
               /\ ErrorKeys(last.errors) \subseteq {"non_field_errors"}
               /\ Cardinality(last.errors) =
                      IF org.is_suspended \/ NoRecipients(last.data) THEN 1 ELSE 0
               /\ org.is_suspended =>
                      \E e \in last.errors : e[2] # "Must provide either urns, contacts or groups"
               /\ (~org.is_suspended /\ NoRecipients(last.data)) =>
                      last.errors = {<<"non_field_errors",
                                       "Must provide either urns, contacts or groups">>}

\* a body without text and with an invalid URN was refused under both fields
C12_Witness ==
    /\ BroadcastObject
    /\ last.data.text = Absent /\ last.data.urns = <<"tel:x">>
    /\ last.errors = {<<"text", "This field is required.">>, <<"urns", "Invalid URN">>}

----------------------------------------------------------------------------
(* Properties of the campaign, contact group and label endpoints *)

\* no two active records of the table have the same name
UniqueNames(table) ==
    \A i, j \in Active(table) : table[i].name = table[j].name => i = j

\* C10: whatever campaigns, contact groups and labels are created and renamed, no two
\* active records of one type have the same name
C10_ActiveNamesUnique ==
    /\ UniqueNames(campaigns)
    /\ UniqueNames(contactgroups)
    /\ UniqueNames(labels)

\* a campaign was renamed while another campaign is active, and there are two active
\* contact groups and two active labels
C10_Witness ==
    /\ last.ser = "Campaign" /\ last.instance # NoRecord /\ last.saved
    /\ Cardinality(Active(campaigns)) = 2
    /\ campaigns[last.instance].name = last.data.name
    /\ Cardinality(Active(contactgroups)) = 2
    /\ Cardinality(Active(labels)) = 2

\* C11: a POST without the uuid of a group that names an active contact group is
\* accepted and makes no second group: the table stays as it is
C11_CreateTwiceIdempotent ==
    [][(/\ last'.ser = "ContactGroup" /\ last'.shape = "object"
        /\ last'.instance = NoRecord
        /\ \E i \in Active(contactgroups) : contactgroups[i].name = last'.data.name)
           => (last'.saved /\ contactgroups' = contactgroups)]_vars

\* C11, amended: a POST without the uuid of a group that names an active contact group
\* is refused under name as not unique and nothing is saved, so that an accepted POST
\* without uuid always makes a new group
C11_SecondCreateRefused ==
    [][(/\ last'.ser = "ContactGroup" /\ last'.shape = "object"
        /\ last'.instance = NoRecord)
           => /\ (\E i \in Active(contactgroups) : contactgroups[i].name = last'.data.name)
                  => /\ <<"name", "This field must be unique.">> \in last'.errors
                     /\ ~last'.saved
                     /\ last'.calls = <<>>
                     /\ contactgroups' = contactgroups
              /\ last'.saved
                  => /\ Len(contactgroups') = Len(contactgroups) + 1
                     /\ contactgroups'[Len(contactgroups')] =
                            [name |-> last'.data.name, is_active |-> TRUE]]_vars

\* the name of an active contact group was posted again without uuid and refused
C11_Witness ==
    /\ last.ser = "ContactGroup" /\ last.shape = "object" /\ last.instance = NoRecord
    /\ \E i \in Active(contactgroups) : contactgroups[i].name = last.data.name
    /\ last.errors = {<<"name", "This field must be unique.">>}
    /\ ~last.saved

----------------------------------------------------------------------------
(* Properties of the resthook subscriber endpoint *)

\* the last request was a JSON object handled by ResthookSubscriberWriteSerializer
SubscriberObject == last.ser = "ResthookSubscriber" /\ last.shape = "object"

\* C13: no two active subscribers have the same resthook and the same target URL, every
\* subscriber the requests added is on an active resthook of the organization, and a
\* slug that is unknown, of an inactive resthook or of another organization's resthook
\* alone fails validation under resthook
C13_SubscribersUniqueOnActiveHooks ==
    /\ \A i, j \in DOMAIN subscribers :
           (/\ subscribers[i].is_active /\ subscribers[j].is_active
            /\ subscribers[i].resthook = subscribers[j].resthook
            /\ subscribers[i].target_url = subscribers[j].target_url) => i = j
    /\ \A i \in DOMAIN subscribers :
           subscribers[i].is_active =>
               (Resthooks[subscribers[i].resthook].is_active
                    /\ Resthooks[subscribers[i].resthook].own)
    /\ (SubscriberObject /\ last.data.resthook \in {"gone", "theirs", "nope"}) =>
           (~last.saved
                /\ <<"resthook", "No resthook with slug">> \in last.errors
                /\ last.calls = <<>>)
    /\ (SubscriberObject /\ last.saved) =>
           /\ Resthooks[last.validated.resthook].slug = last.data.resthook
           /\ subscribers[Len(subscribers)] =
                  [resthook |-> last.validated.resthook,
                   target_url |-> last.data.target_url, is_active |-> TRUE]

\* a URL subscribed to a resthook was posted again for it and refused, the slug being
\* also that of another organization's resthook and the URL that of a removed subscriber
C13_Witness ==
    /\ SubscriberObject
    /\ last.data = [resthook |-> "new-user", target_url |-> "http://a.io"]
    /\ last.errors = {<<"non_field_errors", "URL is already subscribed to this event.">>}
    /\ \E i \in DOMAIN subscribers :
           subscribers[i] = [resthook |-> 3, target_url |-> "http://a.io", is_active |-> TRUE]
    /\ \E i \in DOMAIN subscribers :
           subscribers[i] = [resthook |-> 1, target_url |-> "http://a.io", is_active |-> TRUE]

----------------------------------------------------------------------------
(* Properties of all write serializers *)

\* the write serializers
WriteSerializers ==
    {"Broadcast", "Campaign", "CampaignEvent", "Contact", "ContactGroup", "FlowStart",
     "Label", "ResthookSubscriber"}

\* C9: whichever write serializer gets a body that is not a single JSON object (an
\* array, a scalar, null or nothing), the request fails with an error whose only key is
\* non_field_errors, and neither a field validator nor validate has run, nor save
C9_NonObjectRefusedFirst ==
    (last.ser \in WriteSerializers /\ last.shape # "object")
        => /\ ErrorKeys(last.errors) = {"non_field_errors"}
           /\ last.errors = NotAnObject
           /\ last.ran = {}
           /\ ~last.saved
           /\ last.calls = <<>>

\* a flow start was posted as an array after every table got a record
C9_Witness ==
    /\ last.ser = "FlowStart" /\ last.shape = "array"
    /\ last.errors = NotAnObject
    /\ event.exists
    /\ Len(broadcasts) > 0 /\ Len(starts) > 0 /\ Len(subscribers) > 1
    /\ Active(campaigns) # {} /\ Active(contactgroups) # {} /\ Active(labels) # {}

====
